---- MODULE Spec2Model ----
(***************************************************************************)
(* Model of HtmlPreviewTool.tsx: the ingestion of zipped HTML creatives    *)
(* (processZipFile), the metadata inference (detectDimensions), the        *)
(* rewriting of asset references, and the component state that holds the   *)
(* loaded formats (formatContents, selectedFormat).                        *)
(*                                                                         *)
(* Text is a sequence of one-character strings.  A document is a sequence  *)
(* of fragments; a fragment is one piece of markup that one of the         *)
(* source's regular expressions can match (a meta tag, a tag with an       *)
(* inline style, a style block, a comment, a src/href attribute, ...),     *)
(* carrying the text of the groups the regular expression captures.        *)
(***************************************************************************)
EXTENDS Integers, Sequences, FiniteSets, TLC

VARIABLES
    formatContents,   \* useState Map<string, FormatContent>, as the ordered list of its entries
    selectedFormat,   \* useState string | null, as <<>> (null) or <<key>>
    now,              \* the value Date.now() returns
    batches,          \* the running handleZipUpload / handleDrop calls
    log,              \* history: the inserts made, as [batch, file, key]
    fnIn,             \* input of the function under check (function specifications)
    fnOut,            \* its result
    fnPc              \* "off" in a session; else the function under check, and "done"

vars == <<formatContents, selectedFormat, now, batches, log, fnIn, fnOut, fnPc>>

-----------------------------------------------------------------------------
(* Text                                                                    *)

LowerAlpha == <<"a", "b", "c", "d", "e", "f", "g", "h", "i", "j", "k", "l", "m", "n", "o", "p", "q", "r", "s", "t", "u", "v", "w", "x", "y", "z">>
UpperAlpha == <<"A", "B", "C", "D", "E", "F", "G", "H", "I", "J", "K", "L", "M", "N", "O", "P", "Q", "R", "S", "T", "U", "V", "W", "X", "Y", "Z">>
DigitChars == <<"0", "1", "2", "3", "4", "5", "6", "7", "8", "9">>

Range(s) == {s[i] : i \in 1..Len(s)}

DigitSet == Range(DigitChars)

IsDigit(c) == c \in DigitSet

DigitVal(c) == CHOOSE d \in 0..9 : DigitChars[d + 1] = c

\* \s of the regular expressions
IsSpace(c) == c \in {" ", "\t", "\n", "\r"}

\* String.prototype.toLowerCase, one character
LowerOf == [c \in Range(UpperAlpha) |-> LowerAlpha[CHOOSE i \in 1..Len(UpperAlpha) : UpperAlpha[i] = c]]

LowerChar(c) == IF c \in DOMAIN LowerOf THEN LowerOf[c] ELSE c

toLowerCase(s) == [i \in 1..Len(s) |-> LowerChar(s[i])]

startsWith(s, p) == Len(p) <= Len(s) /\ SubSeq(s, 1, Len(p)) = p

endsWith(s, p) == Len(p) <= Len(s) /\ SubSeq(s, Len(s) - Len(p) + 1, Len(s)) = p

includes(s, p) == \E i \in 1..(Len(s) + 1) : i + Len(p) - 1 <= Len(s) /\ SubSeq(s, i, i + Len(p) - 1) = p

\* String.prototype.trim
trim(s) ==
    LET keep == {i \in 1..Len(s) : ~IsSpace(s[i])}
    IN  IF keep = {} THEN <<>>
        ELSE SubSeq(s, CHOOSE i \in keep : \A j \in keep : i <= j,
                       CHOOSE i \in keep : \A j \in keep : j <= i)

\* the last index of the run of digits that starts at i (s[i] is a digit)
RECURSIVE RunEnd(_, _)
RunEnd(s, i) == IF i < Len(s) /\ IsDigit(s[i + 1]) THEN RunEnd(s, i + 1) ELSE i

\* parseInt of a string of decimal digits
RECURSIVE parseInt(_)
parseInt(s) ==
    IF Len(s) = 0 THEN 0
    ELSE 10 * parseInt(SubSeq(s, 1, Len(s) - 1)) + DigitVal(s[Len(s)])

\* the decimal digits of a number, as template literals print it
RECURSIVE NumberToString(_)
NumberToString(n) ==
    IF n < 10 THEN <<DigitChars[n + 1]>>
    ELSE NumberToString(n \div 10) \o <<DigitChars[(n % 10) + 1]>>

Times == "×"

-----------------------------------------------------------------------------
(* detectDimensions                                                        *)

\* a captured group that may be absent: <<>> or <<value>>
Some(v) == <<v>>
None == <<>>

\* String.prototype.match of a regular expression without the g flag: the
\* leftmost fragment the expression matches, as <<>> or <<fragment>>; hit is
\* the set of the positions of html that the expression matches
FirstMatch(html, hit) ==
    IF hit = {} THEN None ELSE Some(html[CHOOSE i \in hit : \A j \in hit : i <= j])

IsAdSizeMeta(f) == f.kind = "metaAdSize"
IsViewportMeta(f) == f.kind = "metaViewport"
IsBodyWH(f) == f.kind = "body" /\ f.order = "WH"
IsBodyHW(f) == f.kind = "body" /\ f.order = "HW"
IsHtmlWH(f) == f.kind = "html" /\ f.order = "WH"
IsStyleTag(f) == f.kind = "style"
IsDivWH(f) == f.kind = "div" /\ f.order = "WH"
IsSizeComment(f) == f.kind = "comment"
IsDataFormat(f) == f.kind = "dataFormat"
IsTitle(f) == f.kind = "title" /\ Len(f.text) > 0
IsMetaName(f) == f.kind = "metaName" /\ Len(f.text) > 0

\* !width || !height
Unset(d) == d.width = 0 \/ d.height = 0

\* a meta tag whose content holds width=<N> and height=<N>
MetaTier(d, m) ==
    IF m # None /\ m[1].contentW # None /\ m[1].contentH # None
    THEN [width |-> m[1].contentW[1], height |-> m[1].contentH[1]]
    ELSE d

AdSizeTier(d, html) == MetaTier(d, FirstMatch(html, {i \in 1..Len(html) : IsAdSizeMeta(html[i])}))

ViewportTier(d, html) ==
    IF Unset(d) THEN MetaTier(d, FirstMatch(html, {i \in 1..Len(html) : IsViewportMeta(html[i])})) ELSE d

BodyStyleTier(d, html) ==
    IF ~Unset(d) THEN d
    ELSE LET m1 == FirstMatch(html, {i \in 1..Len(html) : IsBodyWH(html[i])})
             m2 == FirstMatch(html, {i \in 1..Len(html) : IsBodyHW(html[i])})
         IN  IF m1 # None THEN [width |-> m1[1].w, height |-> m1[1].h]
             ELSE IF m2 # None THEN [width |-> m2[1].w, height |-> m2[1].h]
             ELSE d

HtmlStyleTier(d, html) ==
    IF ~Unset(d) THEN d
    ELSE LET m == FirstMatch(html, {i \in 1..Len(html) : IsHtmlWH(html[i])})
         IN  IF m # None THEN [width |-> m[1].w, height |-> m[1].h] ELSE d

\* if (m) width = parseInt(m[1])
SetWidth(d, m) == IF m # None THEN [d EXCEPT !.width = m[1]] ELSE d
SetHeight(d, m) == IF m # None THEN [d EXCEPT !.height = m[1]] ELSE d

StyleTagTier(d, html) ==
    IF ~Unset(d) THEN d
    ELSE LET m == FirstMatch(html, {i \in 1..Len(html) : IsStyleTag(html[i])})
         IN  IF m = None THEN d
             ELSE LET css == m[1]
                      d1 == SetHeight(SetWidth(d, css.bodyW), css.bodyH)
                  IN  IF Unset(d1)
                      THEN SetHeight(SetWidth(d1, css.htmlW), css.htmlH)
                      ELSE d1

DivStyleTier(d, html) ==
    IF ~Unset(d) THEN d
    ELSE LET m == FirstMatch(html, {i \in 1..Len(html) : IsDivWH(html[i])})
         IN  IF m # None THEN [width |-> m[1].w, height |-> m[1].h] ELSE d

CommentTier(d, html) ==
    IF ~Unset(d) THEN d
    ELSE LET m == FirstMatch(html, {i \in 1..Len(html) : IsSizeComment(html[i])})
         IN  IF m # None THEN [width |-> m[1].w, height |-> m[1].h] ELSE d

DataFormatTier(d, html) ==
    IF ~Unset(d) THEN d
    ELSE LET m == FirstMatch(html, {i \in 1..Len(html) : IsDataFormat(html[i])})
         IN  IF m # None /\ m[1].dims # None
             THEN [width |-> m[1].dims[1][1], height |-> m[1].dims[1][2]]
             ELSE d

\* [x×_-] under the i flag
FilenameSeps == {"x", "X", Times, "_", "-"}

\* filename.match(/(\d+)[x×_-](\d+)/i): <<>> or <<<<group 1, group 2>>>>
FilenameDimMatch(filename) ==
    LET n == Len(filename)
        hit == {i \in 1..n :
                  /\ IsDigit(filename[i])
                  /\ LET j == RunEnd(filename, i)
                     IN  /\ j + 2 <= n
                         /\ filename[j + 1] \in FilenameSeps
                         /\ IsDigit(filename[j + 2])}
    IN  IF hit = {} THEN None
        ELSE LET i == CHOOSE k \in hit : \A l \in hit : k <= l
                 j == RunEnd(filename, i)
             IN  Some(<<SubSeq(filename, i, j),
                        SubSeq(filename, j + 2, RunEnd(filename, j + 2))>>)

\* as FilenameTier, but a dimension that is already set is kept
FilenameTierCompletes(d, filename) ==
    IF ~Unset(d) THEN d
    ELSE LET m == FilenameDimMatch(filename)
         IN  IF m # None
             THEN [width |-> IF d.width # 0 THEN d.width ELSE parseInt(m[1][1]),
                   height |-> IF d.height # 0 THEN d.height ELSE parseInt(m[1][2])]
             ELSE d

FilenameTier(d, filename) ==
    IF ~Unset(d) THEN d
    ELSE LET m == FilenameDimMatch(filename)
         IN  IF m # None
             THEN [width |-> parseInt(m[1][1]), height |-> parseInt(m[1][2])]
             ELSE d

DefaultWidth == 800
DefaultHeight == 600

\* as DefaultTier, but with && for ||: only when nothing at all was found
DefaultTierBothUnset(d) ==
    IF d.width = 0 /\ d.height = 0 THEN [width |-> DefaultWidth, height |-> DefaultHeight] ELSE d

\* lines 139-142
DefaultTier(d) ==
    IF Unset(d) THEN [width |-> DefaultWidth, height |-> DefaultHeight] ELSE d

\* let width = 0; let height = 0;
NoDimensions == [width |-> 0, height |-> 0]

\* as CascadeTiers, but the viewport tag is read before the ad.size tag
CascadeTiersViewportFirst(html, filename) ==
    LET d1 == ViewportTier(NoDimensions, html)
        d2 == IF Unset(d1) THEN AdSizeTier(d1, html) ELSE d1
        d3 == BodyStyleTier(d2, html)
        d4 == HtmlStyleTier(d3, html)
        d5 == StyleTagTier(d4, html)
        d6 == DivStyleTier(d5, html)
        d7 == CommentTier(d6, html)
        d8 == DataFormatTier(d7, html)
    IN  FilenameTier(d8, filename)

\* lines 25-136: width and height when the last detector has run
CascadeTiers(html, filename) ==
    LET d1 == AdSizeTier(NoDimensions, html)
        d2 == ViewportTier(d1, html)
        d3 == BodyStyleTier(d2, html)
        d4 == HtmlStyleTier(d3, html)
        d5 == StyleTagTier(d4, html)
        d6 == DivStyleTier(d5, html)
        d7 == CommentTier(d6, html)
        d8 == DataFormatTier(d7, html)
    IN  FilenameTier(d8, filename)

\* lines 25-142: the cascade that sets width and height
DimensionCascade(html, filename) == DefaultTier(CascadeTiers(html, filename))

-----------------------------------------------------------------------------
(* Name inference                                                          *)

HtmlExt == <<".", "h", "t", "m", "l">>
KwMobile == <<"m", "o", "b", "i", "l", "e">>
KwPortrait == <<"p", "o", "r", "t", "r", "a", "i", "t">>
KwLandscape == <<"l", "a", "n", "d", "s", "c", "a", "p", "e">>
KwTablet == <<"t", "a", "b", "l", "e", "t">>
KwDesktop == <<"d", "e", "s", "k", "t", "o", "p">>
MobilePortrait == <<"M", "o", "b", "i", "l", "e", " ", "P", "o", "r", "t", "r", "a", "i", "t">>
MobileLandscape == <<"M", "o", "b", "i", "l", "e", " ", "L", "a", "n", "d", "s", "c", "a", "p", "e">>
TabletPortrait == <<"T", "a", "b", "l", "e", "t", " ", "P", "o", "r", "t", "r", "a", "i", "t">>
TabletLandscape == <<"T", "a", "b", "l", "e", "t", " ", "L", "a", "n", "d", "s", "c", "a", "p", "e">>
Desktop == <<"D", "e", "s", "k", "t", "o", "p">>

\* filename.replace(/\.html$/, '').replace(/[_-]/g, ' ')
CleanFilename(filename) ==
    LET cut == IF endsWith(filename, HtmlExt)
               THEN SubSeq(filename, 1, Len(filename) - Len(HtmlExt))
               ELSE filename
    IN  [i \in 1..Len(cut) |-> IF cut[i] \in {"_", "-"} THEN " " ELSE cut[i]]

\* lines 159-176
FilenameName(filename) ==
    LET cleanFilename == CleanFilename(filename)
        lowerFilename == toLowerCase(cleanFilename)
    IN  IF includes(lowerFilename, KwMobile) /\ includes(lowerFilename, KwPortrait) THEN MobilePortrait
        ELSE IF includes(lowerFilename, KwMobile) /\ includes(lowerFilename, KwLandscape) THEN MobileLandscape
        ELSE IF includes(lowerFilename, KwTablet) /\ includes(lowerFilename, KwPortrait) THEN TabletPortrait
        ELSE IF includes(lowerFilename, KwTablet) /\ includes(lowerFilename, KwLandscape) THEN TabletLandscape
        ELSE IF includes(lowerFilename, KwDesktop) THEN Desktop
        ELSE cleanFilename

\* name.match(/\d+\s*[x×]\s*\d+/): no i flag
HasDimPattern(name) ==
    \E c \in 1..Len(name) :
        /\ name[c] \in {"x", Times}
        /\ \E b \in 1..(c - 1) :
              IsDigit(name[b]) /\ \A k \in (b + 1)..(c - 1) : IsSpace(name[k])
        /\ \E e \in (c + 1)..Len(name) :
              IsDigit(name[e]) /\ \A k \in (c + 1)..(e - 1) : IsSpace(name[k])

\* as BaseName, but the meta tag is read before the title
BaseNameMetaFirst(html, filename) ==
    LET titleMatch == FirstMatch(html, {i \in 1..Len(html) : IsTitle(html[i])})
        metaNameMatch == FirstMatch(html, {i \in 1..Len(html) : IsMetaName(html[i])})
        n1 == IF metaNameMatch # None THEN trim(metaNameMatch[1].text) ELSE <<>>
        n2 == IF n1 # <<>> THEN n1
              ELSE IF titleMatch # None THEN trim(titleMatch[1].text) ELSE <<>>
    IN  IF n2 # <<>> THEN n2 ELSE FilenameName(filename)

\* lines 144-176: the name before the dimensions are added
BaseName(html, filename) ==
    LET titleMatch == FirstMatch(html, {i \in 1..Len(html) : IsTitle(html[i])})
        n1 == IF titleMatch # None THEN trim(titleMatch[1].text) ELSE <<>>
        metaNameMatch == FirstMatch(html, {i \in 1..Len(html) : IsMetaName(html[i])})
        n2 == IF n1 # <<>> THEN n1
              ELSE IF metaNameMatch # None THEN trim(metaNameMatch[1].text) ELSE <<>>
    IN  IF n2 # <<>> THEN n2 ELSE FilenameName(filename)

\* `${width}×${height}`
DimText(d) == NumberToString(d.width) \o <<Times>> \o NumberToString(d.height)

\* lines 178-183
FinishName(name, d) ==
    IF name # <<>> /\ ~HasDimPattern(name) THEN name \o <<" ", "(">> \o DimText(d) \o <<")">>
    ELSE IF name = <<>> THEN DimText(d)
    ELSE name

detectDimensions(htmlContent, filename) ==
    LET d == DimensionCascade(htmlContent, filename)
    IN  [width |-> d.width, height |-> d.height,
         name |-> FinishName(BaseName(htmlContent, filename), d)]

-----------------------------------------------------------------------------
(* Asset conversion: Blob -> data URL                                      *)

Base64Alphabet == <<"A", "B", "C", "D", "E", "F", "G", "H", "I", "J", "K", "L", "M", "N", "O", "P", "Q", "R", "S", "T", "U", "V", "W", "X", "Y", "Z", "a", "b", "c", "d", "e", "f", "g", "h", "i", "j", "k", "l", "m", "n", "o", "p", "q", "r", "s", "t", "u", "v", "w", "x", "y", "z", "0", "1", "2", "3", "4", "5", "6", "7", "8", "9", "+", "/">>

B64(n) == Base64Alphabet[n + 1]

\* the base64 text FileReader.readAsDataURL prints for a sequence of bytes
RECURSIVE Base64(_)
Base64(bytes) ==
    IF Len(bytes) = 0 THEN <<>>
    ELSE IF Len(bytes) = 1
    THEN <<B64(bytes[1] \div 4), B64((bytes[1] % 4) * 16), "=", "=">>
    ELSE IF Len(bytes) = 2
    THEN <<B64(bytes[1] \div 4), B64((bytes[1] % 4) * 16 + bytes[2] \div 16),
           B64((bytes[2] % 16) * 4), "=">>
    ELSE <<B64(bytes[1] \div 4), B64((bytes[1] % 4) * 16 + bytes[2] \div 16),
           B64((bytes[2] % 16) * 4 + bytes[3] \div 64), B64(bytes[3] % 64)>>
         \o Base64(SubSeq(bytes, 4, Len(bytes)))

SvgExt == <<".", "s", "v", "g">>
SvgMime == <<"i", "m", "a", "g", "e", "/", "s", "v", "g", "+", "x", "m", "l">>
DataScheme == <<"d", "a", "t", "a", ":">>
Base64Marker == <<";", "b", "a", "s", "e", "6", "4", ",">>

\* lines 221-224: the type of finalBlob
FinalBlobType(basename, type) ==
    IF endsWith(toLowerCase(basename), SvgExt) THEN SvgMime ELSE type

\* lines 226-230: reader.readAsDataURL(finalBlob)
DataUrl(basename, type, bytes) ==
    DataScheme \o FinalBlobType(basename, type) \o Base64Marker \o Base64(bytes)

-----------------------------------------------------------------------------
(* Map<string, V>, as the sequence of its entries in insertion order        *)

MapKeys(m) == [i \in 1..Len(m) |-> m[i].key]

MapHas(m, k) == \E i \in 1..Len(m) : m[i].key = k

MapGet(m, k) == m[CHOOSE i \in 1..Len(m) : m[i].key = k].value

\* Map.prototype.set: an existing key keeps its place
MapSet(m, k, v) ==
    IF MapHas(m, k)
    THEN [i \in 1..Len(m) |-> IF m[i].key = k THEN [key |-> k, value |-> v] ELSE m[i]]
    ELSE Append(m, [key |-> k, value |-> v])

\* Map.prototype.delete
MapDelete(m, k) == SelectSeq(m, LAMBDA e : e.key # k)

-----------------------------------------------------------------------------
(* Replacement of asset references                                         *)

RegexSpecials == {".", "*", "+", "?", "^", "$", "{", "}", "(", ")", "|", "[", "]", "\\"}

\* filename.replace(/[.*+?^${}()|[\]\\]/g, '\\$&')
RECURSIVE EscapeRegex(_)
EscapeRegex(filename) ==
    IF Len(filename) = 0 THEN <<>>
    ELSE (IF filename[1] \in RegexSpecials THEN <<"\\", filename[1]>> ELSE <<filename[1]>>)
         \o EscapeRegex(Tail(filename))

\* new RegExp(source): the atoms of the part of a pattern built from a
\* filename.  "\c" is the character c, "." any character, "(" and ")"
\* group without consuming, "*", "+" and "?" repeat the atom before them.
RECURSIVE RegexAtoms(_)
RegexAtoms(src) ==
    IF Len(src) = 0 THEN <<>>
    ELSE IF src[1] = "\\" /\ Len(src) >= 2
    THEN <<[any |-> FALSE, c |-> src[2], q |-> "1"]>> \o RegexAtoms(SubSeq(src, 3, Len(src)))
    ELSE IF src[1] \in {"(", ")"} THEN RegexAtoms(Tail(src))
    ELSE IF src[1] \in {"*", "+", "?"} THEN RegexAtoms(Tail(src))
    ELSE LET q == IF Len(src) >= 2 /\ src[2] \in {"*", "+", "?"} THEN src[2] ELSE "1"
         IN  <<[any |-> src[1] = ".", c |-> src[1], q |-> q]>> \o RegexAtoms(Tail(src))

\* one atom against one character, under the i flag
AtomMatches(a, ch) == a.any \/ LowerChar(a.c) = LowerChar(ch)

\* does the sequence of atoms from atom i match exactly s[j..Len(s)]
RECURSIVE AtomsMatch(_, _, _, _)
AtomsMatch(atoms, i, s, j) ==
    IF i > Len(atoms) THEN j > Len(s)
    ELSE LET a == atoms[i]
             one == j <= Len(s) /\ AtomMatches(a, s[j])
         IN  CASE a.q = "1" -> one /\ AtomsMatch(atoms, i + 1, s, j + 1)
               [] a.q = "?" -> \/ (one /\ AtomsMatch(atoms, i + 1, s, j + 1))
                               \/ AtomsMatch(atoms, i + 1, s, j)
               [] a.q = "*" -> \/ (one /\ AtomsMatch(atoms, i, s, j + 1))
                               \/ AtomsMatch(atoms, i + 1, s, j)
               [] a.q = "+" -> one /\ (\/ AtomsMatch(atoms, i, s, j + 1)
                                       \/ AtomsMatch(atoms, i + 1, s, j + 1))

\* (src|href)= under the i flag, not anchored on the left
AttrNames == {<<"s", "r", "c">>, <<"h", "r", "e", "f">>}

IsRefAttr(f) == f.kind = "attr" /\ \E a \in AttrNames : endsWith(toLowerCase(f.attr), a)

\* line 258: ["']([^"']*[/\\])?<escaped>["'] against a quoted attribute value
PathPatternMatches(escaped, value) ==
    \E k \in 0..Len(value) :
        /\ k = 0 \/ value[k] \in {"/", "\\"}
        /\ AtomsMatch(RegexAtoms(escaped), 1, SubSeq(value, k + 1, Len(value)), 1)

\* line 259: ["']<escaped>["']
BarePatternMatches(escaped, value) == AtomsMatch(RegexAtoms(escaped), 1, value, 1)

\* processedHtml.replace(pattern, `$1="${dataUrl}"`) with the g flag; hit is
\* the set of the positions of html that the pattern matches
ReplaceRefs(html, hit, dataUrl) ==
    [i \in 1..Len(html) |->
        IF i \in hit
        THEN [html[i] EXCEPT !.quote = "\"", !.value = dataUrl]
        ELSE html[i]]

\* lines 251-269, one asset: both patterns in turn
ReplaceAsset(html, filename, dataUrl) ==
    LET escapedFilename == EscapeRegex(filename)
        Refs(h) == {i \in 1..Len(h) : IsRefAttr(h[i])}
        h1 == ReplaceRefs(html, {i \in Refs(html) :
                  PathPatternMatches(escapedFilename, html[i].value)}, dataUrl)
    IN  ReplaceRefs(h1, {i \in Refs(h1) :
                  BarePatternMatches(escapedFilename, h1[i].value)}, dataUrl)

\* lines 250-269: assets.forEach, in insertion order
RECURSIVE ReplaceAll(_, _)
ReplaceAll(html, assets) ==
    IF Len(assets) = 0 THEN html
    ELSE ReplaceAll(ReplaceAsset(html, assets[1].key, assets[1].value), Tail(assets))

-----------------------------------------------------------------------------
(* processZipFile: the part that reads the archive                         *)

ZipExt == <<".", "z", "i", "p">>
MacosxPrefix == <<"_", "_", "M", "A", "C", "O", "S", "X">>

\* as Basename, but the directories of the path are kept
BasenameWholePath(filename) == filename

\* filename.split('/').pop() || filename
Basename(filename) ==
    LET slashes == {i \in 1..Len(filename) : filename[i] = "/"}
        last == IF slashes = {} THEN 0 ELSE CHOOSE i \in slashes : \A j \in slashes : j <= i
        tail == SubSeq(filename, last + 1, Len(filename))
    IN  IF tail = <<>> THEN filename ELSE tail

\* line 214
IsSkipped(basename) == startsWith(basename, <<".">>) \/ startsWith(basename, MacosxPrefix)

\* lines 204-235: the body of the loop over contents.files, for one entry.
\* st.status is "run" until an await of zipEntry.async rejects ("throws").
\* FileReader reads a Blob that JSZip holds in memory: it always loads.
ExtractEntry(st, e) ==
    IF st.status # "run" \/ e.dir THEN st
    ELSE IF endsWith(e.name, HtmlExt) /\ st.htmlFile = None
    THEN IF e.read = "throws" THEN [st EXCEPT !.status = "throws"]
         ELSE [st EXCEPT !.htmlFile = Some(e.name), !.htmlContent = e.text]
    ELSE LET basename == Basename(e.name)
         IN  IF IsSkipped(basename) THEN st
             ELSE IF e.read = "throws" THEN [st EXCEPT !.status = "throws"]
             ELSE [st EXCEPT !.assets = MapSet(@, basename, DataUrl(basename, e.type, e.bytes))]

RECURSIVE ExtractLoop(_, _)
ExtractLoop(st, entries) ==
    IF Len(entries) = 0 THEN st
    ELSE ExtractLoop(ExtractEntry(st, entries[1]), Tail(entries))

\* lines 198-236
Extract(entries) ==
    ExtractLoop([status |-> "run", htmlFile |-> None, htmlContent |-> <<>>, assets |-> <<>>],
                entries)

\* lines 244-276: the FormatContent built from what the loop found
BuildFormat(x) ==
    LET d == detectDimensions(x.htmlContent, x.htmlFile[1])
    IN  [html |-> ReplaceAll(x.htmlContent, x.assets), assets |-> x.assets,
         width |-> d.width, height |-> d.height, name |-> d.name]

NoFormat == [html |-> <<>>, assets |-> <<>>, width |-> 0, height |-> 0, name |-> <<>>]

\* lines 188-289 without the state updates: how the call ends, and the
\* FormatContent it inserts when it ends "loaded"
\* line 189
IsZipName(file) == endsWith(file.name, ZipExt)

processZipFile(file) ==
    IF ~IsZipName(file) THEN [outcome |-> "notZip", format |-> NoFormat]
    ELSE IF file.load = "throws" THEN [outcome |-> "failed", format |-> NoFormat]
    ELSE LET x == Extract(file.entries)
         IN  IF x.status = "throws" THEN [outcome |-> "failed", format |-> NoFormat]
             ELSE IF x.htmlFile = None THEN [outcome |-> "noHtml", format |-> NoFormat]
             ELSE [outcome |-> "loaded", format |-> BuildFormat(x)]

\* line 273: `${name}_${Date.now()}`
FormatKey(name, t) == name \o <<"_">> \o NumberToString(t)

-----------------------------------------------------------------------------
(* The component: formatContents, selectedFormat and the handlers          *)

\* the files of one session: the total number of files submitted
MaxFiles == 2
\* the largest value of the clock
MaxClock == 1

TxtAd == <<"A", "d">>
TxtSrc == <<"s", "r", "c">>
TxtHref == <<"h", "r", "e", "f">>
TxtLogoPng == <<"l", "o", "g", "o", ".", "p", "n", "g">>
TxtImgLogoPng == <<"i", "m", "g", "/", "l", "o", "g", "o", ".", "p", "n", "g">>
TxtIndexHtml == <<"i", "n", "d", "e", "x", ".", "h", "t", "m", "l">>
TxtMobileHtml == <<"m", "o", "b", "i", "l", "e", "-", "p", "o", "r", "t", "r", "a", "i", "t", "-", "a", "d", ".", "h", "t", "m", "l">>
TxtAZip == <<"a", ".", "z", "i", "p">>
TxtBZip == <<"b", ".", "z", "i", "p">>
TxtNotesTxt == <<"n", "o", "t", "e", "s", ".", "t", "x", "t">>
TxtImagePng == <<"i", "m", "a", "g", "e", "/", "p", "n", "g">>
TxtTextHtml == <<"t", "e", "x", "t", "/", "h", "t", "m", "l">>

TitleTag(text) == [kind |-> "title", text |-> text]
RefAttr(attr, quote, value) == [kind |-> "attr", attr |-> attr, quote |-> quote, value |-> value]

ZipEntry(name, type, bytes, text, read) ==
    [name |-> name, dir |-> FALSE, type |-> type, bytes |-> bytes, text |-> text, read |-> read]

DocAd == <<TitleTag(TxtAd), RefAttr(TxtSrc, "'", TxtImgLogoPng)>>

EntryIndexHtml == ZipEntry(TxtIndexHtml, TxtTextHtml, <<>>, DocAd, "ok")
EntryMobileHtml == ZipEntry(TxtMobileHtml, TxtTextHtml, <<>>, <<>>, "ok")
EntryLogo == ZipEntry(TxtImgLogoPng, TxtImagePng, <<137, 80, 78>>, <<>>, "ok")
EntryLogoCorrupt == ZipEntry(TxtImgLogoPng, TxtImagePng, <<137, 80, 78>>, <<>>, "throws")

ZipFile(name, load, entries) == [name |-> name, load |-> load, entries |-> entries]

FileAd == ZipFile(TxtAZip, "ok", <<EntryIndexHtml, EntryLogo>>)
FileMobile == ZipFile(TxtBZip, "ok", <<EntryMobileHtml>>)
FileNotes == ZipFile(TxtNotesTxt, "ok", <<>>)
FileNoHtml == ZipFile(TxtAZip, "ok", <<EntryLogo>>)
FileCorrupt == ZipFile(TxtBZip, "throws", <<>>)
FileBadAsset == ZipFile(TxtAZip, "ok", <<EntryIndexHtml, EntryLogoCorrupt>>)

\* a FileList holds handles; FileOf gives the file a handle stands for
SessionFiles == {"ad", "mobile", "notes", "noHtml", "corrupt", "badAsset"}

FileOf(handle) ==
    CASE handle = "ad" -> FileAd
      [] handle = "mobile" -> FileMobile
      [] handle = "notes" -> FileNotes
      [] handle = "noHtml" -> FileNoHtml
      [] handle = "corrupt" -> FileCorrupt
      [] handle = "badAsset" -> FileBadAsset

\* processZipFile of each file of the session, computed once
Processed == [handle \in SessionFiles |-> processZipFile(FileOf(handle))]

RECURSIVE SeqsUpTo(_, _)
SeqsUpTo(S, n) ==
    IF n = 0 THEN {<<>>}
    ELSE LET shorter == SeqsUpTo(S, n - 1)
         IN  shorter \cup {Append(q, x) : q \in {r \in shorter : Len(r) = n - 1}, x \in S}

RECURSIVE SumLens(_)
SumLens(bs) == IF Len(bs) = 0 THEN 0 ELSE Len(bs[1].files) + SumLens(Tail(bs))

Began(k) == [ev |-> "begin", file |-> k, outcome |-> "none"]
Ended(k, outcome) == [ev |-> "end", file |-> k, outcome |-> outcome]

\* lines 295-297 / 310-312: the loop from file i up to the first await that
\* gives control back to the event loop.  A file that is no .zip is
\* rejected before any await (lines 189-192), so the loop goes on at once.
RECURSIVE RunLoop(_, _)
RunLoop(b, i) ==
    IF i > Len(b.files) THEN [b EXCEPT !.i = i, !.stage = "done"]
    ELSE IF ~IsZipName(FileOf(b.files[i]))
    THEN RunLoop([b EXCEPT !.events = @ \o <<Began(i), Ended(i, "notZip")>>], i + 1)
    ELSE [b EXCEPT !.i = i, !.stage = "loading", !.events = Append(@, Began(i))]

\* a call of handleZipUpload or handleDrop: its closure holds the
\* selectedFormat of the render the handler belongs to
NewBatch(files) == RunLoop([files |-> files, i |-> 1, sel |-> selectedFormat,
                            stage |-> "loading", events |-> <<>>], 1)

\* the FileList values of the change and drop events
FileLists == SeqsUpTo(SessionFiles, MaxFiles) \ {<<>>}

Submit(files) ==
    /\ fnPc = "off"
    /\ SumLens(batches) + Len(files) <= MaxFiles
    /\ batches' = Append(batches, NewBatch(files))
    /\ UNCHANGED <<formatContents, selectedFormat, now, log, fnIn, fnOut, fnPc>>

handleZipUpload ==
    /\ SumLens(batches) < MaxFiles
    /\ \E files \in FileLists : Submit(files)

handleDrop ==
    /\ SumLens(batches) < MaxFiles
    /\ \E files \in FileLists : Submit(files)

\* as AfterFile, but what processZipFile threw ends the loop
AfterFileStopOnFailure(b, outcome) ==
    IF outcome = "failed"
    THEN [b EXCEPT !.events = Append(@, Ended(b.i, outcome)), !.i = b.i + 1, !.stage = "done"]
    ELSE RunLoop([b EXCEPT !.events = Append(@, Ended(b.i, outcome))], b.i + 1)

\* lines 295-297 / 310-312: the loop goes on after processZipFile(files[i])
\* has returned, however it ended (its catch block swallows what was thrown)
AfterFile(b, outcome) == RunLoop([b EXCEPT !.events = Append(@, Ended(b.i, outcome))], b.i + 1)

\* as FormatsAfter, but the update also runs when the call returned early or threw
FormatsAfterAlways(r, formatKey) == MapSet(formatContents, formatKey, r.format)

\* lines 274-278: setFormatContents, reached only when nothing returned or threw
FormatsAfter(r, formatKey) ==
    IF r.outcome = "loaded" THEN MapSet(formatContents, formatKey, r.format) ELSE formatContents

\* lines 280-282: selectedFormat is the one of the closure
SelectionAfter(b, r, formatKey) ==
    IF r.outcome = "loaded" /\ b.sel = None THEN Some(formatKey) ELSE selectedFormat

\* lines 194-288 from the first await on: the rest of processZipFile(files[i])
\* of batch n, and the loop up to its next await
Resume(n) ==
    /\ fnPc = "off"
    /\ n \in 1..Len(batches)
    /\ batches[n].stage = "loading"
    /\ LET b == batches[n]
           r == Processed[b.files[b.i]]
           formatKey == FormatKey(r.format.name, now)
       IN  /\ formatContents' = FormatsAfter(r, formatKey)
           /\ selectedFormat' = SelectionAfter(b, r, formatKey)
           /\ log' = IF r.outcome = "loaded"
                     THEN Append(log, [batch |-> n, file |-> b.i, key |-> formatKey])
                     ELSE log
           /\ batches' = [batches EXCEPT ![n] = AfterFile(b, r.outcome)]
    /\ UNCHANGED <<now, fnIn, fnOut, fnPc>>

\* line 469: onClick={() => setSelectedFormat(formatKey)} of a listed format
SelectFormat(formatKey) ==
    /\ fnPc = "off"
    /\ MapHas(formatContents, formatKey)
    /\ selectedFormat' = Some(formatKey)
    /\ UNCHANGED <<formatContents, now, batches, log, fnIn, fnOut, fnPc>>

\* as SelectionAfterRemove, but the removed key is not filtered out
SelectionAfterRemoveUnfiltered(formatKey) ==
    LET remaining == MapKeys(formatContents)
    IN  IF selectedFormat = Some(formatKey)
        THEN (IF Len(remaining) > 0 THEN Some(remaining[1]) ELSE None)
        ELSE selectedFormat

\* lines 333-334
SelectionAfterRemove(formatKey) ==
    LET remaining == SelectSeq(MapKeys(formatContents), LAMBDA k : k # formatKey)
    IN  IF selectedFormat = Some(formatKey)
        THEN (IF Len(remaining) > 0 THEN Some(remaining[1]) ELSE None)
        ELSE selectedFormat

removeFormat(formatKey) ==
    /\ fnPc = "off"
    /\ MapHas(formatContents, formatKey)
    /\ formatContents' = MapDelete(formatContents, formatKey)
    /\ selectedFormat' = SelectionAfterRemove(formatKey)
    /\ UNCHANGED <<now, batches, log, fnIn, fnOut, fnPc>>

clearAll ==
    /\ fnPc = "off"
    /\ Len(formatContents) > 0
    /\ formatContents' = <<>>
    /\ selectedFormat' = None
    /\ UNCHANGED <<now, batches, log, fnIn, fnOut, fnPc>>

\* time passes between two reads of Date.now()
Tick ==
    /\ fnPc = "off"
    /\ now < MaxClock
    /\ now' = now + 1
    /\ UNCHANGED <<formatContents, selectedFormat, batches, log, fnIn, fnOut, fnPc>>

Init ==
    /\ formatContents = <<>>
    /\ selectedFormat = None
    /\ now = 0
    /\ batches = <<>>
    /\ log = <<>>
    /\ fnIn = <<>>
    /\ fnOut = <<>>
    /\ fnPc = "off"

Next ==
    \/ handleZipUpload
    \/ handleDrop
    \/ \E n \in 1..Len(batches) : Resume(n)
    \/ \E k \in Range(MapKeys(formatContents)) : SelectFormat(k)
    \/ \E k \in Range(MapKeys(formatContents)) : removeFormat(k)
    \/ clearAll
    \/ Tick

Spec == Init /\ [][Next]_vars

-----------------------------------------------------------------------------
(* processZipFile on one archive (SpecIngest)                              *)

\* the largest number of entries of an archive
MaxEntries == 3

TxtOtherHtml == <<"o", "t", "h", "e", "r", ".", "h", "t", "m", "l">>
TxtCssLogoPng == <<"c", "s", "s", "/", "l", "o", "g", "o", ".", "p", "n", "g">>
TxtImgBgPng == <<"i", "m", "g", "/", "b", "g", ".", "p", "n", "g">>
TxtIconSvg == <<"i", "c", "o", "n", ".", "s", "v", "g">>
TxtDsStore == <<".", "D", "S", "_", "S", "t", "o", "r", "e">>
TxtMacosxLogo == <<"_", "_", "M", "A", "C", "O", "S", "X", "/", ".", "_", "l", "o", "g", "o", ".", "p", "n", "g">>
TxtMacosxBin == <<"_", "_", "M", "A", "C", "O", "S", "X", ".", "b", "i", "n">>
TxtImgDir == <<"i", "m", "g", "/">>
TxtOctetStream == <<"a", "p", "p", "l", "i", "c", "a", "t", "i", "o", "n", "/", "o", "c", "t", "e", "t", "-", "s", "t", "r", "e", "a", "m">>

DocTwoRefs == <<RefAttr(TxtSrc, "\"", TxtLogoPng), RefAttr(TxtHref, "\"", TxtImgBgPng)>>

ArchiveEntries ==
    { ZipEntry(TxtIndexHtml, TxtTextHtml, <<>>, DocTwoRefs, "ok"),
      ZipEntry(TxtOtherHtml, TxtTextHtml, <<60, 104>>, DocAd, "ok"),
      ZipEntry(TxtImgLogoPng, TxtImagePng, <<137, 80, 78>>, <<>>, "ok"),
      ZipEntry(TxtCssLogoPng, TxtImagePng, <<255, 255, 255, 0>>, <<>>, "ok"),
      ZipEntry(TxtImgBgPng, TxtImagePng, <<137, 80>>, <<>>, "throws"),
      ZipEntry(TxtIconSvg, TxtOctetStream, <<60>>, <<>>, "ok"),
      ZipEntry(TxtDsStore, TxtOctetStream, <<0>>, <<>>, "ok"),
      ZipEntry(TxtMacosxLogo, TxtOctetStream, <<0, 5>>, <<>>, "ok"),
      ZipEntry(TxtMacosxBin, TxtOctetStream, <<1>>, <<>>, "ok"),
      [name |-> TxtImgDir, dir |-> TRUE, type |-> <<>>, bytes |-> <<>>, text |-> <<>>, read |-> "ok"] }

\* contents.files is an object keyed by entry name: the names differ
EntryLists ==
    {q \in SeqsUpTo(ArchiveEntries, MaxEntries) :
        \A a, b \in 1..Len(q) : a # b => q[a].name # q[b].name}

IngestInputs ==
    {ZipFile(TxtAZip, "ok", q) : q \in EntryLists}
        \cup {ZipFile(TxtAZip, "throws", <<>>), ZipFile(TxtNotesTxt, "ok", <<>>)}

IngestFile ==
    /\ fnPc = "ingest"
    /\ fnOut' = processZipFile(fnIn)
    /\ fnPc' = "done"
    /\ UNCHANGED <<formatContents, selectedFormat, now, batches, log, fnIn>>

NoSession ==
    /\ formatContents = <<>>
    /\ selectedFormat = None
    /\ now = 0
    /\ batches = <<>>
    /\ log = <<>>

InitIngest ==
    /\ NoSession
    /\ fnPc = "ingest"
    /\ fnIn \in IngestInputs
    /\ fnOut = <<>>

SpecIngest == InitIngest /\ [][IngestFile]_vars

-----------------------------------------------------------------------------
(* The replacement of references on one document (SpecRewrite)             *)

\* the largest number of src/href attributes of a document
MaxRefs == 2

TxtSrcUpper == <<"S", "R", "C">>
TxtAlt == <<"a", "l", "t">>
TxtLogoPngUpper == <<"L", "O", "G", "O", ".", "P", "N", "G">>
TxtXLogoPng == <<"x", "l", "o", "g", "o", ".", "p", "n", "g">>
TxtLogoXPng == <<"l", "o", "g", "o", "x", "p", "n", "g">>
TxtLogo1Png == <<"l", "o", "g", "o", "(", "1", ")", ".", "p", "n", "g">>
TxtLogo1PngPlain == <<"l", "o", "g", "o", "1", ".", "p", "n", "g">>
TxtWinLogo1Png == <<"i", "m", "g", "\\", "l", "o", "g", "o", "(", "1", ")", ".", "p", "n", "g">>

RefValues == {TxtLogoPng, TxtLogoPngUpper, TxtImgLogoPng, TxtXLogoPng, TxtLogoXPng,
              TxtLogo1Png, TxtLogo1PngPlain, TxtWinLogo1Png}

RefFragments ==
    {RefAttr(TxtSrc, "'", v) : v \in RefValues}
        \cup {RefAttr(TxtSrcUpper, "\"", v) : v \in RefValues}
        \cup {RefAttr(TxtAlt, "\"", TxtLogoPng)}

AssetLogo == [key |-> TxtLogoPng, value |-> DataUrl(TxtLogoPng, TxtImagePng, <<137, 80, 78>>)]
AssetLogo1 == [key |-> TxtLogo1Png, value |-> DataUrl(TxtLogo1Png, TxtImagePng, <<255, 216>>)]

AssetMaps == {<<AssetLogo>>, <<AssetLogo1>>, <<AssetLogo, AssetLogo1>>}

RewriteInputs == [html : SeqsUpTo(RefFragments, MaxRefs), assets : AssetMaps]

RewriteDocument ==
    /\ fnPc = "rewrite"
    /\ fnOut' = ReplaceAll(fnIn.html, fnIn.assets)
    /\ fnPc' = "done"
    /\ UNCHANGED <<formatContents, selectedFormat, now, batches, log, fnIn>>

InitRewrite ==
    /\ NoSession
    /\ fnPc = "rewrite"
    /\ fnIn \in RewriteInputs
    /\ fnOut = <<>>

SpecRewrite == InitRewrite /\ [][RewriteDocument]_vars

-----------------------------------------------------------------------------
(* The replacement of references applied twice (SpecRewriteTwice)          *)

TxtAbc == <<"a", "b", "c">>
TxtAbcUpper == <<"A", "B", "C">>
TxtXBin == <<"x", ".", "b", "i", "n">>
TxtImgXBin == <<"i", "m", "g", "/", "x", ".", "b", "i", "n">>

\* an asset without extension, and a binary asset whose last three bytes
\* encode as "/abc" in Base64
AssetAbc == [key |-> TxtAbc, value |-> DataUrl(TxtAbc, TxtOctetStream, <<1, 2, 3>>)]
AssetBin == [key |-> TxtXBin, value |-> DataUrl(TxtXBin, TxtOctetStream, <<253, 166, 220>>)]

TwiceRefFragments ==
    {RefAttr(TxtSrc, "'", v) : v \in {TxtLogoPng, TxtImgLogoPng, TxtAbc, TxtAbcUpper, TxtXBin, TxtImgXBin}}
        \cup {RefAttr(TxtAlt, "\"", TxtXBin)}

TwiceAssetMaps ==
    {<<AssetLogo>>, <<AssetLogo, AssetLogo1>>, <<AssetBin>>, <<AssetAbc>>,
     <<AssetAbc, AssetBin>>, <<AssetBin, AssetAbc>>, <<AssetLogo, AssetAbc, AssetBin>>}

RewriteTwiceInputs == [html : SeqsUpTo(TwiceRefFragments, MaxRefs), assets : TwiceAssetMaps]

\* lines 250-269 once more, on the text the first application produced and
\* with the same asset map; both texts are kept
RewriteAgain ==
    /\ fnPc = "done"
    /\ fnOut' = [once |-> fnOut, twice |-> ReplaceAll(fnOut, fnIn.assets)]
    /\ fnPc' = "again"
    /\ UNCHANGED <<formatContents, selectedFormat, now, batches, log, fnIn>>

InitRewriteTwice ==
    /\ NoSession
    /\ fnPc = "rewrite"
    /\ fnIn \in RewriteTwiceInputs
    /\ fnOut = <<>>

SpecRewriteTwice == InitRewriteTwice /\ [][RewriteDocument \/ RewriteAgain]_vars

-----------------------------------------------------------------------------
(* detectDimensions on one document and filename (SpecDetect)              *)

\* the largest number of fragments of a document
MaxFrags == 2

MetaAdSize(w, h) == [kind |-> "metaAdSize", contentW |-> w, contentH |-> h]
MetaViewport(w, h) == [kind |-> "metaViewport", contentW |-> w, contentH |-> h]
BodyStyle(order, w, h) == [kind |-> "body", order |-> order, w |-> w, h |-> h]
HtmlStyle(order, w, h) == [kind |-> "html", order |-> order, w |-> w, h |-> h]
DivStyle(order, w, h) == [kind |-> "div", order |-> order, w |-> w, h |-> h]
StyleTag(bodyW, bodyH, htmlW, htmlH) ==
    [kind |-> "style", bodyW |-> bodyW, bodyH |-> bodyH, htmlW |-> htmlW, htmlH |-> htmlH]
SizeComment(w, h) == [kind |-> "comment", w |-> w, h |-> h]
DataFormat(dims) == [kind |-> "dataFormat", dims |-> dims]
MetaName(text) == [kind |-> "metaName", text |-> text]

DimFragments ==
    { MetaAdSize(Some(300), Some(250)), MetaAdSize(Some(0), Some(250)), MetaAdSize(Some(300), None),
      MetaViewport(Some(320), Some(480)), MetaViewport(None, None),
      BodyStyle("WH", 336, 280), BodyStyle("HW", 728, 90),
      HtmlStyle("WH", 160, 600), HtmlStyle("HW", 600, 160),
      StyleTag(Some(970), None, None, None), StyleTag(None, Some(66), None, None),
      StyleTag(Some(970), Some(90), None, None), StyleTag(None, None, Some(180), Some(150)),
      StyleTag(Some(970), None, Some(180), None),
      DivStyle("WH", 120, 240),
      SizeComment(468, 60), SizeComment(468, 0),
      DataFormat(Some(<<200, 100>>)), DataFormat(None) }

TxtPromoPadded == <<" ", " ", "P", "r", "o", "m", "o", " ">>
TxtBlank == <<" ", " ", " ">>
TxtAdLowerX == <<"A", "d", " ", "3", "0", "0", "x", "2", "5", "0">>
TxtAdUpperX == <<"A", "d", " ", "3", "0", "0", "X", "2", "5", "0">>
TxtAdTimes == <<"A", "d", " ", "3", "0", "0", " ", "×", " ", "2", "5", "0">>
TxtHeroPadded == <<" ", "H", "e", "r", "o">>

NameFragments ==
    { TitleTag(TxtAd), TitleTag(TxtPromoPadded), TitleTag(TxtBlank), TitleTag(TxtAdLowerX),
      TitleTag(TxtAdUpperX), TitleTag(TxtAdTimes),
      MetaName(TxtHeroPadded), MetaName(TxtBlank),
      MetaViewport(Some(320), Some(480)) }

TxtBannerHtml == <<"b", "a", "n", "n", "e", "r", "_", "3", "2", "0", "x", "4", "8", "0", ".", "h", "t", "m", "l">>
TxtDotHtml == <<".", "h", "t", "m", "l">>
TxtTabletHtml == <<"a", "d", "s", "/", "T", "a", "b", "l", "e", "t", "_", "L", "a", "n", "d", "s", "c", "a", "p", "e", ".", "h", "t", "m", "l">>
TxtDesktopHtml == <<"d", "e", "s", "k", "t", "o", "p", "-", "9", "7", "0", "-", "2", "5", "0", ".", "h", "t", "m", "l">>
TxtMobileWideHtml == <<"m", "o", "b", "i", "l", "e", "_", "l", "a", "n", "d", "s", "c", "a", "p", "e", "_", "v", "2", ".", "h", "t", "m", "l">>
TxtTabletTallHtml == <<"t", "a", "b", "l", "e", "t", "-", "p", "o", "r", "t", "r", "a", "i", "t", ".", "h", "t", "m", "l">>

\* the names of HTML entries: they end in .html (line 206)
Filenames == {TxtIndexHtml, TxtBannerHtml, TxtMobileHtml, TxtDotHtml, TxtTabletHtml,
              TxtDesktopHtml, TxtMobileWideHtml, TxtTabletTallHtml}

\* the filenames the documents with dimension fragments are tried with
DimFilenames == {TxtIndexHtml, TxtBannerHtml, TxtDesktopHtml}

DetectInputs ==
    [html : SeqsUpTo(DimFragments, MaxFrags), filename : DimFilenames]
        \cup [html : SeqsUpTo(NameFragments, MaxFrags), filename : Filenames]

DetectDocument ==
    /\ fnPc = "detect"
    /\ fnOut' = detectDimensions(fnIn.html, fnIn.filename)
    /\ fnPc' = "done"
    /\ UNCHANGED <<formatContents, selectedFormat, now, batches, log, fnIn>>

InitDetect ==
    /\ NoSession
    /\ fnPc = "detect"
    /\ fnIn \in DetectInputs
    /\ fnOut = <<>>

SpecDetect == InitDetect /\ [][DetectDocument]_vars

-----------------------------------------------------------------------------
(* Properties of the session (Spec)                                        *)

\* C1: the selected pointer is none or the key of a format that is in the
\* collection, in every reachable state.
SelectedIsLoaded == selectedFormat = None \/ MapHas(formatContents, selectedFormat[1])

\* C1 witness: two formats with different keys were inserted, one of them has
\* been removed, and the other one is the selected format.
SelectedIsLoadedWitness ==
    /\ Len(log) = 2
    /\ log[1].key # log[2].key
    /\ Len(formatContents) = 1
    /\ selectedFormat = Some(formatContents[1].key)

\* C2: the keys of the formats inserted in a session are pairwise different,
\* so that no insertion replaces an entry of the collection.
FormatKeysUnique == \A i, j \in 1..Len(log) : i # j => log[i].key # log[j].key

\* a step in which at least one call of processZipFile ended, and every call
\* that ended was rejected (no .zip name, no HTML entry) or threw
RejectedOrFailedStep ==
    \E n \in 1..Len(batches') :
        LET old == IF n <= Len(batches) THEN Len(batches[n].events) ELSE 0
            new == batches'[n].events
        IN  /\ \E k \in (old + 1)..Len(new) : new[k].ev = "end"
            /\ \A k \in (old + 1)..Len(new) :
                  new[k].ev = "end" => new[k].outcome \in {"notZip", "noHtml", "failed"}

\* C3: a call of processZipFile that is rejected or fails leaves formatContents
\* and selectedFormat exactly as they were.
RejectedLeavesState ==
    [][RejectedOrFailedStep => (formatContents' = formatContents /\ selectedFormat' = selectedFormat)]_vars

\* C3 witness: a format is loaded and selected, and a later batch has had a
\* call rejected and (with two files) a call that threw or found no HTML.
RejectedLeavesStateWitness ==
    /\ Len(formatContents) = 1
    /\ selectedFormat # None
    /\ Len(batches) = 2
    /\ Len(batches[1].events) = 2 /\ batches[1].events[2].outcome = "loaded"
    /\ Len(batches[2].events) = 2 /\ batches[2].events[2].outcome \in {"noHtml", "failed"}

\* C5: the files of a batch are processed one at a time in submission order:
\* the events of a batch are begin 1, end 1, begin 2, end 2, ...; a call ends
\* before the next begins whatever its outcome; the loop is done only when
\* every file has been processed; formats are inserted in submission order.
BatchIsSequential ==
    /\ \A n \in 1..Len(batches) :
          LET b == batches[n]
          IN  /\ \A j \in 1..Len(b.events) :
                    /\ b.events[j].file = (j + 1) \div 2
                    /\ b.events[j].ev = (IF j % 2 = 1 THEN "begin" ELSE "end")
              /\ b.stage = "done" => Len(b.events) = 2 * Len(b.files)
              /\ b.stage = "loading" => Len(b.events) = 2 * b.i - 1 /\ b.i <= Len(b.files)
              /\ \A j \in 1..Len(b.events) :
                    b.events[j].ev = "end" /\ b.events[j].outcome = "loaded"
                       => \E a \in 1..Len(log) : log[a].batch = n /\ log[a].file = b.events[j].file
    /\ \A a, c \in 1..Len(log) :
          a < c /\ log[a].batch = log[c].batch => log[a].file < log[c].file

\* C5 witness: a batch of two files is done; the first call threw, the second
\* one loaded a format.
BatchIsSequentialWitness ==
    \E n \in 1..Len(batches) :
        /\ batches[n].stage = "done"
        /\ Len(batches[n].files) = 2
        /\ batches[n].events[2].outcome = "failed"
        /\ batches[n].events[4].outcome = "loaded"
        /\ Len(formatContents) = 1

\* C13: an ingestion that ends by inserting a format changes the selected
\* format only when no format is selected at that moment: a selection that
\* exists, also one made by an earlier archive of the same batch, is kept.
IngestionKeepsSelection ==
    [][(Len(log') = Len(log) + 1 /\ selectedFormat # None) => selectedFormat' = selectedFormat]_vars

\* the same for the selection the handler saw when its batch began
IngestionKeepsSelectionOfBatchStart ==
    [][\A n \in 1..Len(batches) :
          (/\ Len(log') = Len(log) + 1
           /\ log'[Len(log')].batch = n
           /\ batches[n].sel # None) => selectedFormat' = selectedFormat]_vars

\* a batch of two archives into an empty collection is done, both formats are
\* loaded under different keys, and the selected one is the second
LastOfBatchSelectedWitness ==
    /\ Len(batches) = 1 /\ batches[1].stage = "done"
    /\ Len(log) = 2 /\ log[1].key # log[2].key
    /\ Len(formatContents) = 2
    /\ selectedFormat = Some(log[2].key)

-----------------------------------------------------------------------------
(* Properties of detectDimensions (SpecDetect)                             *)

\* what each detector finds on its own, in the order of priority: ad.size
\* meta, viewport meta, body style, html style, style block, div style,
\* size comment, data-format attribute, filename
Yields(html, filename) ==
    << AdSizeTier(NoDimensions, html), ViewportTier(NoDimensions, html),
       BodyStyleTier(NoDimensions, html), HtmlStyleTier(NoDimensions, html),
       StyleTagTier(NoDimensions, html), DivStyleTier(NoDimensions, html),
       CommentTier(NoDimensions, html), DataFormatTier(NoDimensions, html),
       FilenameTier(NoDimensions, filename) >>

YieldsBoth(d) == d.width # 0 /\ d.height # 0

YieldsHalf(d) == (d.width = 0) # (d.height = 0)

\* the detector of highest priority that yields a width and a height
Winner(y) == CHOOSE k \in 1..Len(y) : YieldsBoth(y[k]) /\ \A j \in 1..(k - 1) : ~YieldsBoth(y[j])

\* C6 as claimed: the result is the width and height of the detector of
\* highest priority that yields both, whatever the detectors below it find.
HighestPriorityDetectorWins ==
    fnPc = "done" =>
        LET y == Yields(fnIn.html, fnIn.filename)
        IN  (\E k \in 1..Len(y) : YieldsBoth(y[k]))
               => fnOut.width = y[Winner(y)].width /\ fnOut.height = y[Winner(y)].height

\* C6 as amended: the same, for the documents in which no detector above the
\* style block (ad.size meta, viewport meta, body style, html style) matches
\* with exactly one of its two values equal to 0.
HighestPriorityDetectorWinsUnlessHalfZero ==
    fnPc = "done" =>
        LET y == Yields(fnIn.html, fnIn.filename)
        IN  (/\ \E k \in 1..Len(y) : YieldsBoth(y[k])
             /\ \A k \in 1..4 : ~YieldsHalf(y[k]))
               => fnOut.width = y[Winner(y)].width /\ fnOut.height = y[Winner(y)].height

\* C6 witness: the ad.size tag and the viewport tag both give a width and a
\* height, different ones, and the result is that of the ad.size tag.
HighestPriorityWitness ==
    /\ fnPc = "done"
    /\ LET y == Yields(fnIn.html, fnIn.filename)
       IN  /\ YieldsBoth(y[1]) /\ YieldsBoth(y[2]) /\ y[1] # y[2]
           /\ fnOut.width = y[1].width /\ fnOut.height = y[1].height

\* C7: width and height are positive for every input, and they are 800 and
\* 600 whenever the detectors end without both a non-zero width and a
\* non-zero height.
DimensionsPositiveOrDefault ==
    fnPc = "done" =>
        /\ fnOut.width > 0 /\ fnOut.height > 0
        /\ Unset(CascadeTiers(fnIn.html, fnIn.filename))
              => fnOut.width = 800 /\ fnOut.height = 600

\* C7 witness: the detectors end with a width and no height, and the result
\* is 800 by 600.
DimensionsDefaultWitness ==
    /\ fnPc = "done"
    /\ CascadeTiers(fnIn.html, fnIn.filename).width # 0
    /\ CascadeTiers(fnIn.html, fnIn.filename).height = 0
    /\ fnOut.width = 800 /\ fnOut.height = 600

\* the keyword pairs of the filename, and the names they stand for
KeywordNames ==
    << <<KwMobile, KwPortrait, MobilePortrait>>, <<KwMobile, KwLandscape, MobileLandscape>>,
       <<KwTablet, KwPortrait, TabletPortrait>>, <<KwTablet, KwLandscape, TabletLandscape>>,
       <<KwDesktop, KwDesktop, Desktop>> >>

\* the three sources of the base name, in order: the trimmed title, the
\* (trimmed) content of the format-name / display-name meta tag, the name
\* derived from the filename
NameSources(html, filename) ==
    LET titles == {i \in 1..Len(html) : html[i].kind = "title" /\ html[i].text # <<>>}
        metas == {i \in 1..Len(html) : html[i].kind = "metaName" /\ html[i].text # <<>>}
        clean == CleanFilename(filename)
        lower == toLowerCase(clean)
        hits == {k \in 1..Len(KeywordNames) :
                    /\ includes(lower, KeywordNames[k][1])
                    /\ includes(lower, KeywordNames[k][2])}
    IN  << IF titles = {} THEN <<>> ELSE trim(html[CHOOSE i \in titles : \A j \in titles : i <= j].text),
           IF metas = {} THEN <<>> ELSE trim(html[CHOOSE i \in metas : \A j \in metas : i <= j].text),
           IF hits = {} THEN clean ELSE KeywordNames[CHOOSE k \in hits : \A j \in hits : k <= j][3] >>

TierTrace(html, filename) ==
    LET d1 == AdSizeTier(NoDimensions, html)
        d2 == ViewportTier(d1, html)
        d3 == BodyStyleTier(d2, html)
        d4 == HtmlStyleTier(d3, html)
        d5 == StyleTagTier(d4, html)
        d6 == DivStyleTier(d5, html)
        d7 == CommentTier(d6, html)
        d8 == DataFormatTier(d7, html)
        d9 == FilenameTier(d8, filename)
    IN  <<NoDimensions, d1, d2, d3, d4, d5, d6, d7, d8, d9>>

\* t[k] is what detector k finds set and t[k + 1] what it leaves; detector 5 is
\* the style block
IsStyleBlockTier(k) == k = 5

\* the widths and the heights of the rules of the first style block, and
\* those of its body rule
StyleBlockValues(html) ==
    LET blocks == {i \in 1..Len(html) : html[i].kind = "style"}
    IN  IF blocks = {} THEN [width |-> {}, height |-> {}, bodyWidth |-> {}, bodyHeight |-> {}]
        ELSE LET css == html[CHOOSE i \in blocks : \A j \in blocks : i <= j]
             IN  [width |-> {v[1] : v \in {css.bodyW, css.htmlW} \ {None}},
                  height |-> {v[1] : v \in {css.bodyH, css.htmlH} \ {None}},
                  bodyWidth |-> {v[1] : v \in {css.bodyW} \ {None}},
                  bodyHeight |-> {v[1] : v \in {css.bodyH} \ {None}}]

\* the result is what the detectors leave, or the default
ResultIsEndOfTrace(t) ==
    /\ fnOut.width = DefaultTier(t[Len(t)]).width
    /\ fnOut.height = DefaultTier(t[Len(t)]).height

\* C12 as claimed: a detector that finds one dimension set and the other one
\* missing keeps the one that is set and can only supply the missing one, and
\* a detector that finds both set is skipped.
PartialPairIsCompletedByLaterTier ==
    fnPc = "done" =>
        LET t == TierTrace(fnIn.html, fnIn.filename)
        IN  /\ ResultIsEndOfTrace(t)
            /\ \A k \in 1..(Len(t) - 1) :
                  /\ t[k].width # 0 => t[k + 1].width = t[k].width
                  /\ t[k].height # 0 => t[k + 1].height = t[k].height

\* C12 as amended: a detector that finds both dimensions set is skipped; one
\* that finds a dimension missing runs, and if it is not the style block it
\* either changes nothing or replaces both dimensions by its own; the style
\* block alone sets the dimensions one by one, each from a rule of the block,
\* keeps a dimension for which the block has no rule, and replaces even a
\* dimension that is set when the body rule of the block has a value for it.
PartialPairIsCompletedByStyleBlockOnly ==
    fnPc = "done" =>
        LET t == TierTrace(fnIn.html, fnIn.filename)
            y == Yields(fnIn.html, fnIn.filename)
            css == StyleBlockValues(fnIn.html)
        IN  /\ ResultIsEndOfTrace(t)
            /\ \A k \in 1..(Len(t) - 1) :
                  /\ ~Unset(t[k]) => t[k + 1] = t[k]
                  /\ Unset(t[k]) /\ ~IsStyleBlockTier(k)
                        => t[k + 1] = t[k] \/ (y[k] # NoDimensions /\ t[k + 1] = y[k])
                  /\ Unset(t[k]) /\ IsStyleBlockTier(k)
                        => /\ t[k + 1].width = t[k].width \/ t[k + 1].width \in css.width
                           /\ t[k + 1].height = t[k].height \/ t[k + 1].height \in css.height
                           /\ css.width = {} => t[k + 1].width = t[k].width
                           /\ css.height = {} => t[k + 1].height = t[k].height
                           /\ css.bodyWidth # {} => t[k + 1].width \in css.width
                           /\ css.bodyHeight # {} => t[k + 1].height \in css.height

\* C12 witness: a detector above the style block left the height set and the
\* width missing, the style block supplied the width alone, and the result is
\* that width with the height that was set.
PartialPairWitness ==
    /\ fnPc = "done"
    /\ LET t == TierTrace(fnIn.html, fnIn.filename)
       IN  /\ t[5].width = 0 /\ t[5].height # 0
           /\ t[6].width # 0
           /\ t[6].height = t[5].height
           /\ fnOut.width = t[6].width
           /\ fnOut.height = t[5].height

\* the style block left one dimension set, and a detector below it replaced
\* both dimensions
PartialPairReplacedWitness ==
    /\ fnPc = "done"
    /\ LET t == TierTrace(fnIn.html, fnIn.filename)
       IN  /\ t[5].width = 0 /\ t[5].height = 0
           /\ t[6].width # 0 /\ t[6].height = 0
           /\ fnOut.width # t[6].width
           /\ fnOut.width # DefaultWidth

-----------------------------------------------------------------------------
(* Properties of processZipFile on one archive (SpecIngest)                *)

\* the part of a path after its last "/", by recursion on the path
RECURSIVE PathTail(_)
PathTail(path) ==
    IF \E i \in 1..Len(path) : path[i] = "/"
    THEN PathTail(SubSeq(path, (CHOOSE i \in 1..Len(path) : path[i] = "/" /\ \A j \in 1..(i - 1) : path[j] # "/") + 1, Len(path)))
    ELSE path

\* the entries that name a document: files whose name ends in .html
DocumentEntries(entries) ==
    {i \in 1..Len(entries) : ~entries[i].dir /\ endsWith(entries[i].name, HtmlExt)}

\* the asset entries that are not skipped: files that are no document and
\* whose basename starts neither with "." nor with "__MACOSX"
AssetEntries(entries) ==
    {i \in 1..Len(entries) :
        /\ ~entries[i].dir
        /\ i \notin DocumentEntries(entries)
        /\ PathTail(entries[i].name)[1] # "."
        /\ ~startsWith(PathTail(entries[i].name), MacosxPrefix)}

\* value is exactly the basename, or a path that ends in "/" or "\" followed
\* by exactly the basename, letter case included
RefersExactly(value, basename) ==
    \/ value = basename
    \/ \E k \in 1..Len(value) :
          value[k] \in {"/", "\\"} /\ SubSeq(value, k + 1, Len(value)) = basename

Ingested == fnPc = "done" /\ IsZipName(fnIn) /\ fnIn.load = "ok"

\* C4: when the bytes of one asset entry cannot be read, that asset alone is
\* skipped: the archive (whose document can be read) still yields a format,
\* whose asset map holds every asset that can be read and whose references
\* to the unreadable asset are those of the document.
AssetFailureSkipsAsset ==
    (/\ Ingested
     /\ DocumentEntries(fnIn.entries) # {}
     /\ \A i \in DocumentEntries(fnIn.entries) : fnIn.entries[i].read = "ok")
    => /\ fnOut.outcome = "loaded"
       /\ \A i \in AssetEntries(fnIn.entries) :
             fnIn.entries[i].read = "ok"
                => MapHas(fnOut.format.assets, PathTail(fnIn.entries[i].name))
       /\ \A k \in 1..Len(fnOut.format.html) :
             (\E i \in AssetEntries(fnIn.entries) :
                 /\ fnIn.entries[i].read = "throws"
                 /\ \E d \in DocumentEntries(fnIn.entries) :
                       /\ k <= Len(fnIn.entries[d].text)
                       /\ fnIn.entries[d].text[k].kind = "attr"
                       /\ RefersExactly(fnIn.entries[d].text[k].value, PathTail(fnIn.entries[i].name)))
                => \E d \in DocumentEntries(fnIn.entries) : fnOut.format.html[k] = fnIn.entries[d].text[k]

\* C10 as claimed: with exactly one document entry and N asset entries that
\* are not skipped, the asset map has exactly N entries, keyed by basename.
AssetMapHasNEntries ==
    (/\ Ingested
     /\ fnOut.outcome = "loaded"
     /\ Cardinality(DocumentEntries(fnIn.entries)) = 1)
    => /\ Len(fnOut.format.assets) = Cardinality(AssetEntries(fnIn.entries))
       /\ Range(MapKeys(fnOut.format.assets))
             = {PathTail(fnIn.entries[i].name) : i \in AssetEntries(fnIn.entries)}

\* C10 as amended: the asset map has one entry for each different basename
\* among the N asset entries that are not skipped, keyed by that basename (N
\* entries when the basenames differ), and the entry of a basename holds the
\* data of the last entry with that basename.
AssetMapHasOneEntryPerBasename ==
    (/\ Ingested
     /\ fnOut.outcome = "loaded"
     /\ Cardinality(DocumentEntries(fnIn.entries)) = 1)
    => LET names == {PathTail(fnIn.entries[i].name) : i \in AssetEntries(fnIn.entries)}
           assets == fnOut.format.assets
       IN  /\ Len(assets) = Cardinality(names)
           /\ Range(MapKeys(assets)) = names
           /\ Cardinality({PathTail(fnIn.entries[i].name) : i \in AssetEntries(fnIn.entries)})
                 = Cardinality(AssetEntries(fnIn.entries))
                 => Len(assets) = Cardinality(AssetEntries(fnIn.entries))
           /\ \A i \in AssetEntries(fnIn.entries) :
                 (\A j \in AssetEntries(fnIn.entries) :
                     PathTail(fnIn.entries[j].name) = PathTail(fnIn.entries[i].name) => j <= i)
                    => MapGet(assets, PathTail(fnIn.entries[i].name))
                          = DataUrl(PathTail(fnIn.entries[i].name), fnIn.entries[i].type, fnIn.entries[i].bytes)

\* C10 witness: one document and two asset entries with the same basename
\* give an asset map of one entry.
AssetMapWitness ==
    /\ Ingested
    /\ fnOut.outcome = "loaded"
    /\ Cardinality(DocumentEntries(fnIn.entries)) = 1
    /\ Cardinality(AssetEntries(fnIn.entries)) = 2
    /\ Len(fnOut.format.assets) = 1

-----------------------------------------------------------------------------
(* Properties of the replacement of references (SpecRewrite)               *)

\* C9: a src/href value is rewritten to the data URL of an asset only if it
\* is that asset's basename, bare or after a path, with the same letter case
\* and character for character; everything else is left unchanged.
RewriteIsCaseSensitiveAndLiteral ==
    fnPc = "done" =>
        /\ Len(fnOut) = Len(fnIn.html)
        /\ \A i \in 1..Len(fnOut) :
              fnOut[i] # fnIn.html[i] =>
                 \E a \in 1..Len(fnIn.assets) :
                    /\ RefersExactly(fnIn.html[i].value, fnIn.assets[a].key)
                    /\ fnOut[i].value = fnIn.assets[a].value

\* the same, with the letter case ignored: what the i flag of the patterns gives
RewriteIsLiteralIgnoringCase ==
    fnPc = "done" =>
        /\ Len(fnOut) = Len(fnIn.html)
        /\ \A i \in 1..Len(fnOut) :
              fnOut[i] # fnIn.html[i] =>
                 \E a \in 1..Len(fnIn.assets) :
                    /\ RefersExactly(toLowerCase(fnIn.html[i].value), toLowerCase(fnIn.assets[a].key))
                    /\ fnOut[i].value = fnIn.assets[a].value

-----------------------------------------------------------------------------
(* Properties of the replacement applied twice (SpecRewriteTwice)          *)

\* the data URL of asset b ends, after a "/" or "\", with the basename of
\* asset a (letter case ignored): the first pattern of a matches it
DataUrlMatches(a, b) == PathPatternMatches(EscapeRegex(a.key), b.value)

\* C11: the replacement of references is a no-op on its own output: applied
\* again with the same asset map to the text it produced, it returns that
\* text unchanged.
RewriteIsIdempotent == fnPc = "again" => fnOut.twice = fnOut.once

\* the same when no asset's pattern matches the data URL of a later asset
RewriteIsIdempotentOnPlainDataUrls ==
    fnPc = "again" =>
        \/ fnOut.twice = fnOut.once
        \/ \E a, b \in 1..Len(fnIn.assets) : a < b /\ DataUrlMatches(fnIn.assets[a], fnIn.assets[b])

\* a second application that changes nothing, after a first one that rewrote
\* a reference
RewriteTwiceWitness ==
    /\ fnPc = "again"
    /\ fnOut.once # fnIn.html
    /\ fnOut.twice = fnOut.once

====
